---------------------------- MODULE Spec2Model ----------------------------
(***************************************************************************)
(* registrobr-finder (src/src/main.rs): the candidate generator, the       *)
(* availability checker, and the bounded-concurrency scan that main drives *)
(* over the candidates with its shared counters, list and progress bar.    *)
(*                                                                         *)
(* Strings are sequences of one-character strings, so that concatenation,  *)
(* splitting and number formatting are computed and not assumed.           *)
(* Option<T> is a sequence of length 0 (None) or 1 (Some).                 *)
(***************************************************************************)
EXTENDS Integers, Sequences, FiniteSets, Bags, TLC

VARIABLES
    \* generate_combinations(length, letters_only, numbers_only)
    g_pc,              \* "idle" | "loop" | "returned"
    g_args,            \* [length, letters_only, numbers_only]
    g_i,               \* the loop variable i of `for i in 0..total`
    combinations,      \* the Vec being built
    \* main
    args,              \* [workers, suffix, verbose, output]
    domains,           \* the candidate list of the scan
    pc,                \* "idle" | "start" | "scanning" | "collected" | "finished" | "summarised" | "done"
    next_domain,       \* how many candidates stream::iter has handed out
    fut,               \* per candidate: where its async block stands
    held,              \* per candidate: the locals its async block holds across an await
    requests,          \* per candidate: GET requests issued
    wire,              \* per candidate: what the network answered to send() and json()
    results,           \* the Vec<DomainResult> collect() builds
    order,             \* the candidate position behind each entry of results
    available_count,
    error_count,
    available_domains,
    progress,          \* [len, pos, msg, lines, finished]
    summary,           \* Option of what the RESUMO block printed
    file               \* Option of the lines written to args.output

gen_vars == <<g_pc, g_args, g_i, combinations>>
scan_vars == <<args, domains, pc, next_domain, fut, held, requests, wire, results, order,
               available_count, error_count, available_domains, progress, summary, file>>
vars == <<gen_vars, scan_vars>>

None == <<>>
Some(x) == <<x>>

\* ------------------------------------------------------------------ bounds

\* generate_combinations is run for every (length, mode) with
\* length <= MaxLength and base^length <= MaxTotal.
MaxLength == 3
MaxTotal == 1296

\* a scan is over 1..MaxDomains candidates with 1..MaxWorkers workers
MaxDomains == 3
MaxWorkers == 2
MaxRichDomains == 1

\* ------------------------------------------------------ string literals

DIGITS == <<"0", "1", "2", "3", "4", "5", "6", "7", "8", "9">>
LETTERS == <<"a", "b", "c", "d", "e", "f", "g", "h", "i", "j", "k", "l", "m",
             "n", "o", "p", "q", "r", "s", "t", "u", "v", "w", "x", "y", "z">>
ALPHANUMERIC == LETTERS \o DIGITS

RECURSIVE Pow(_, _)
Pow(b, e) == IF e = 0 THEN 1 ELSE b * Pow(b, e - 1)

Reverse(s) == [k \in 1..Len(s) |-> s[Len(s) + 1 - k]]

\* ------------------------------------------------ generate_combinations

\* let chars = if numbers_only .. else if letters_only .. else ..
Chars(letters_only, numbers_only) ==
    IF numbers_only THEN DIGITS
    ELSE IF letters_only THEN LETTERS
    ELSE ALPHANUMERIC

\* for _ in 0..length { combo.push(chars[n % base]); n /= base; }
RECURSIVE PushDigitsNoDivide(_, _, _)
PushDigitsNoDivide(chars, n, k) ==
    IF k = 0 THEN <<>>
    ELSE <<chars[(n % Len(chars)) + 1]>> \o PushDigitsNoDivide(chars, n, k - 1)

RECURSIVE PushDigits(_, _, _)
PushDigits(chars, n, k) ==
    IF k = 0 THEN <<>>
    ELSE <<chars[(n % Len(chars)) + 1]>> \o PushDigits(chars, n \div Len(chars), k - 1)

\* the body of `for i in 0..total`: the combo pushed for i
ComboNoRev(chars, length, i) == PushDigits(chars, i, length)

Combo(chars, length, i) == Reverse(PushDigits(chars, i, length))

GenChars == Chars(g_args.letters_only, g_args.numbers_only)
GenBase == Len(GenChars)
GenTotal == Pow(GenBase, g_args.length)

GenArgs ==
    {a \in [length : 0..MaxLength, letters_only : BOOLEAN, numbers_only : BOOLEAN] :
        Pow(Len(Chars(a.letters_only, a.numbers_only)), a.length) <= MaxTotal}

GenInit ==
    /\ g_pc = "loop"
    /\ g_args \in GenArgs
    /\ g_i = 0
    /\ combinations = <<>>
    /\ args = [workers |-> 1, suffix |-> <<>>, verbose |-> FALSE, output |-> None]
    /\ domains = <<>>
    /\ pc = "idle"
    /\ next_domain = 0
    /\ fut = <<>>
    /\ held = <<>>
    /\ requests = <<>>
    /\ wire = <<>>
    /\ results = <<>>
    /\ order = <<>>
    /\ available_count = 0
    /\ error_count = 0
    /\ available_domains = <<>>
    /\ progress = [len |-> 0, pos |-> 0, msg |-> None, lines |-> <<>>, finished |-> FALSE]
    /\ summary = None
    /\ file = None

\* one iteration of `for i in 0..total`
GenStep ==
    /\ g_pc = "loop"
    /\ g_i < GenTotal
    /\ combinations' = Append(combinations, Combo(GenChars, g_args.length, g_i))
    /\ g_i' = g_i + 1
    /\ UNCHANGED <<g_pc, g_args, scan_vars>>

\* the loop is exhausted: `combinations` is returned
GenReturn ==
    /\ g_pc = "loop"
    /\ g_i = GenTotal
    /\ g_pc' = "returned"
    /\ UNCHANGED <<g_args, g_i, combinations, scan_vars>>

GenNext == GenStep \/ GenReturn

GenSpec == GenInit /\ [][GenNext]_vars


\* --------------------------------------------------------- check_domain

RATE_LIMITED == <<"r", "a", "t", "e", " ", "l", "i", "m", "i", "t", "e", "d">>
DISPONIVEL == <<"d", "i", "s", "p", "o", "n", "í", "v", "e", "l">>
REGISTRADO == <<"r", "e", "g", "i", "s", "t", "r", "a", "d", "o">>
EXPIRA_OPEN == <<" ", "(", "e", "x", "p", "i", "r", "a", ":", " ">>
EXPIRA_CLOSE == <<")">>
EM_PROCESSO == <<"e", "m", " ", "p", "r", "o", "c", "e", "s", "s", "o">>
INDISPONIVEL == <<"i", "n", "d", "i", "s", "p", "o", "n", "í", "v", "e", "l">>
STATUS_ == <<"s", "t", "a", "t", "u", "s", " ">>
PARSE_ERROR_ == <<"p", "a", "r", "s", "e", " ", "e", "r", "r", "o", "r", ":", " ">>
HTTP_ == <<"H", "T", "T", "P", " ">>

\* Display of a non-negative integer
RECURSIVE NatToString(_)
NatToString(n) ==
    IF n < 10 THEN <<DIGITS[n + 1]>>
    ELSE NatToString(n \div 10) \o <<DIGITS[(n % 10) + 1]>>

\* Display of an i32 / usize / u16
IntToString(n) == IF n < 0 THEN <<"-">> \o NatToString(0 - n) ELSE NatToString(n)

\* The replies of the network to one GET: `send().await` gives Err(e) or a
\* response with a status code; on a 2xx response `json().await` gives
\* Err(e) or the parsed AvailResponse.
SendErr(msg) == [kind |-> "err", code |-> 0, msg |-> msg]
SendHttp(code) == [kind |-> "http", code |-> code, msg |-> <<>>]
BodyErr(msg) == [kind |-> "err", status |-> 0, expires_at |-> None, msg |-> msg]
BodyOk(status, expires_at) ==
    [kind |-> "ok", status |-> status, expires_at |-> expires_at, msg |-> <<>>]
NoBody == BodyErr(<<>>)

\* reqwest::StatusCode::TOO_MANY_REQUESTS
TOO_MANY_REQUESTS == 429

\* StatusCode::is_success
is_successNoUpperBound(code) == 200 <= code
is_success(code) == 200 <= code /\ code <= 299

\* StatusCode's canonical reason, for the codes the model's network answers
canonical_reason(code) ==
    CASE code = 200 -> <<"O", "K">>
      [] code = 201 -> <<"C", "r", "e", "a", "t", "e", "d">>
      [] code = 404 -> <<"N", "o", "t", " ", "F", "o", "u", "n", "d">>
      [] code = 429 -> <<"T", "o", "o", " ", "M", "a", "n", "y", " ", "R", "e", "q", "u", "e", "s", "t", "s">>
      [] code = 500 -> <<"I", "n", "t", "e", "r", "n", "a", "l", " ", "S", "e", "r", "v", "e", "r", " ", "E", "r", "r", "o", "r">>
      [] OTHER -> <<"<", "u", "n", "k", "n", "o", "w", "n", " ", "s", "t", "a", "t", "u", "s", " ", "c", "o", "d", "e", ">">>

\* `{}` of a StatusCode: the number and the canonical reason
StatusCodeToString(code) == NatToString(code) \o <<" ">> \o canonical_reason(code)

\* expires.split('T').next(): the text before the first 'T'
SplitTNextWhole(s) == s
RECURSIVE SplitTNext(_)
SplitTNext(s) ==
    IF s = <<>> \/ Head(s) = "T" THEN <<>>
    ELSE <<Head(s)>> \o SplitTNext(Tail(s))

\* let available = avail.status == 0
is_available(avail) == avail.status = 0

\* let status_str = match avail.status { .. }
status_str(avail) ==
    CASE avail.status = 0 -> DISPONIVEL
      [] avail.status = 2 ->
            IF avail.expires_at # None
            THEN REGISTRADO \o EXPIRA_OPEN \o SplitTNext(avail.expires_at[1]) \o EXPIRA_CLOSE
            ELSE REGISTRADO
      [] avail.status = 3 -> EM_PROCESSO
      [] avail.status = 4 -> INDISPONIVEL
      [] OTHER -> STATUS_ \o IntToString(avail.status)

DomainResult(domain, available, status, error) ==
    [domain |-> domain, available |-> available, status |-> status, error |-> error]

\* let full_domain = format!("{}{}", domain, suffix)
FullDomainNoSuffix(domain, suffix) == domain
FullDomain(domain, suffix) == domain \o suffix

\* check_domain, as a function of what the two awaits resolve to
check_domain(domain, suffix, send, body) ==
    LET full_domain == FullDomain(domain, suffix) IN
    IF send.kind = "http" THEN
        IF send.code = TOO_MANY_REQUESTS THEN
            DomainResult(full_domain, FALSE, None, Some(RATE_LIMITED))
        ELSE IF is_success(send.code) THEN
            IF body.kind = "ok" THEN
                DomainResult(full_domain, is_available(body), Some(status_str(body)), None)
            ELSE
                DomainResult(full_domain, FALSE, None, Some(PARSE_ERROR_ \o body.msg))
        ELSE
            DomainResult(full_domain, FALSE, None,
                         Some(HTTP_ \o StatusCodeToString(send.code)))
    ELSE
        DomainResult(full_domain, FALSE, None, Some(send.msg))

\* whether check_domain goes on to `response.json().await`
AwaitsBody(send) ==
    send.kind = "http" /\ send.code # TOO_MANY_REQUESTS /\ is_success(send.code)


\* ------------------------------------------------------------------ main

DISPONIVEIS == <<" ", "d", "i", "s", "p", "o", "n", "i", "v", "e", "i", "s">>
ERROS == <<" ", "e", "r", "r", "o", "s">>
COMMA_SPACE == <<",", " ">>

\* what the scan is run on
\* (the --check lists "ab", "ab,z9", "ab,z9,ab", ..: from three candidates on,
\* one candidate occurs twice)
Candidate(k) == IF k % 2 = 1 THEN <<"a", "b">> ELSE <<"z", "9">>
CheckLists == {[k \in 1..n |-> Candidate(k)] : n \in 1..MaxDomains}
Suffixes == {<<".", "c", "o", "m", ".", "b", "r">>}
Outputs == {None, Some(<<"o", "u", "t">>)}

\* what the network may answer. Scans of at most MaxRichDomains candidates
\* are run against the wide set of replies; longer scans against a transport
\* failure, a 429 and a 200 whose body has status 0 or 2.
TIMED_OUT == <<"t", "i", "m", "e", "d", " ", "o", "u", "t">>
REFUSED == <<"r", "e", "f", "u", "s", "e", "d">>
EOF_ == <<"E", "O", "F">>
EXPIRES_1 == <<"2", "0", "3", "0", "-", "0", "1", "-", "0", "1", "T", "0", "0", ":", "0", "0", ":", "0", "0">>
EXPIRES_2 == <<"2", "0", "3", "0", "-", "0", "1", "-", "0", "1">>
EXPIRES_3 == <<"T", "0", "0", ":", "0", "0">>
EXPIRES_4 == <<"2", "0", "3", "1", "T", "2", "3", "T", "5", "9">>

Rich == Len(domains) <= MaxRichDomains

SendOutcomes ==
    IF Rich
    THEN {SendErr(TIMED_OUT), SendErr(REFUSED),
          SendHttp(200), SendHttp(201), SendHttp(404), SendHttp(429), SendHttp(500)}
    ELSE {SendErr(TIMED_OUT), SendHttp(200), SendHttp(429)}

BodyOutcomes ==
    IF Rich
    THEN {BodyErr(EOF_)}
         \cup {BodyOk(s, None) : s \in {-1, 0, 1, 2, 3, 4, 99}}
         \cup {BodyOk(s, Some(e)) : s \in {0, 2},
                                    e \in {EXPIRES_1, EXPIRES_2, EXPIRES_3, EXPIRES_4}}
    ELSE {BodyOk(0, None), BodyOk(2, None)}

N == Len(domains)

NoLocals == [response |-> None, result |-> None]

Init ==
    /\ g_pc = "idle"
    /\ g_args = [length |-> 0, letters_only |-> FALSE, numbers_only |-> FALSE]
    /\ g_i = 0
    /\ combinations = <<>>
    /\ args \in [workers : 1..MaxWorkers, suffix : Suffixes,
                 verbose : BOOLEAN, output : Outputs]
    /\ domains \in CheckLists
    /\ pc = "start"
    /\ next_domain = 0
    /\ fut = [i \in 1..N |-> "queued"]
    /\ held = [i \in 1..N |-> NoLocals]
    /\ requests = [i \in 1..N |-> 0]
    /\ wire = [i \in 1..N |-> [send |-> None, body |-> None]]
    /\ results = <<>>
    /\ order = <<>>
    /\ available_count = 0
    /\ error_count = 0
    /\ available_domains = <<>>
    /\ progress = [len |-> N, pos |-> 0, msg |-> None, lines |-> <<>>, finished |-> FALSE]
    /\ summary = None
    /\ file = None

\* the futures buffer_unordered holds: pulled from the stream, not yet yielded
InProgress == {j \in 1..N : fut[j] \in {"created", "sent", "body", "locking"}}

\* the queue once candidate i's future has returned: it leaves the queue
RemainingKeepsIt(i) == InProgress
Remaining(i) == InProgress \ {i}

\* buffer_unordered's fill loop: how many futures it pulls from the stream
RECURSIVE FillCountOffByOne(_, _, _, _)
FillCountOffByOne(len, handed, total, max) ==
    IF len <= max /\ handed < total
    THEN 1 + FillCountOffByOne(len + 1, handed + 1, total, max)
    ELSE 0

FillCountWhenDrained(len, handed, total, max) ==
    IF len = 0 THEN (IF total - handed < max THEN total - handed ELSE max) ELSE 0

RECURSIVE FillCount(_, _, _, _)
FillCount(len, handed, total, max) ==
    IF len < max /\ handed < total
    THEN 1 + FillCount(len + 1, handed + 1, total, max)
    ELSE 0

\* the first poll of collect(): buffer_unordered fills its queue
StartScan ==
    /\ pc = "start"
    /\ LET p == FillCount(0, 0, N, args.workers) IN
        /\ fut' = [j \in 1..N |-> IF j <= p THEN "created" ELSE "queued"]
        /\ next_domain' = p
    /\ pc' = "scanning"
    /\ UNCHANGED <<args, domains, held, requests, wire, results, order, available_count,
                   error_count, available_domains, progress, summary, file, gen_vars>>

\* the first poll of candidate i's future: check_domain sends its GET
\* (futures are first polled in the order buffer_unordered pushed them)
IssueAgain(i) ==
    /\ pc = "scanning"
    /\ fut[i] \in {"created", "sent"}
    /\ requests[i] < 2
    /\ fut' = [fut EXCEPT ![i] = "sent"]
    /\ requests' = [requests EXCEPT ![i] = @ + 1]
    /\ UNCHANGED <<args, domains, pc, next_domain, held, wire, results, order, available_count,
                   error_count, available_domains, progress, summary, file, gen_vars>>

Issue(i) ==
    /\ pc = "scanning"
    /\ fut[i] = "created"
    /\ \A j \in 1..(i - 1) : fut[j] # "created"
    /\ fut' = [fut EXCEPT ![i] = "sent"]
    /\ requests' = [requests EXCEPT ![i] = @ + 1]
    /\ UNCHANGED <<args, domains, pc, next_domain, held, wire, results, order, available_count,
                   error_count, available_domains, progress, summary, file, gen_vars>>

\* `if result.available` / `else if result.error.is_some()`
CountsAvailableOrTaken(result) == result.error = None
CountsAvailable(result) == result.available
CountsErrorAlways(result) == ~result.available
CountsErrorButRateLimited(result) ==
    ~result.available /\ result.error # None /\ result.error # Some(RATE_LIMITED)
CountsError(result) == ~result.available /\ result.error # None

\* the line progress.println prints for a result, if any
Line(kind, domain, detail) == [kind |-> kind, domain |-> domain, detail |-> detail]
NotificationErrorsAlways(result, verbose) ==
    IF result.available THEN <<Line("DISPONIVEL", result.domain, None)>>
    ELSE IF result.error # None THEN <<Line("ERRO", result.domain, result.error)>>
    ELSE IF verbose THEN
        <<Line("REGISTRADO", result.domain,
               IF result.status # None THEN result.status ELSE Some(REGISTRADO))>>
    ELSE <<>>
Notification(result, verbose) ==
    IF result.available THEN <<Line("DISPONIVEL", result.domain, None)>>
    ELSE IF result.error # None THEN
        IF verbose THEN <<Line("ERRO", result.domain, result.error)>> ELSE <<>>
    ELSE IF verbose THEN
        <<Line("REGISTRADO", result.domain,
               IF result.status # None THEN result.status ELSE Some(REGISTRADO))>>
    ELSE <<>>

\* progress.inc(delta)
incSetsPosition(pos, delta) == delta
inc(pos, delta) == pos + delta

\* domains.push(result.domain.clone())
PushedNothing(list, result) == list
PushedReplace(list, result) ==
    IF result.available THEN <<result.domain>> ELSE list
PushedFront(list, result) ==
    IF result.available THEN <<result.domain>> \o list ELSE list
PushedTwice(list, result) ==
    IF result.available THEN list \o <<result.domain, result.domain>> ELSE list
Pushed(list, result) ==
    IF result.available THEN Append(list, result.domain) ELSE list

\* The rest of candidate i's async block once the counters stand at ac and
\* ec, none of it suspending: the push, the println, progress.inc,
\* set_message, `result`; then, in the same poll, buffer_unordered yields the
\* result to collect() and refills its queue.
Complete(i, result, ac, ec) ==
    /\ available_count' = ac
    /\ error_count' = ec
    /\ available_domains' = Pushed(available_domains, result)
    /\ progress' = [progress EXCEPT
                        !.lines = @ \o Notification(result, args.verbose),
                        !.pos = inc(@, 1),
                        !.msg = Some(IntToString(ac) \o DISPONIVEIS)]
    /\ results' = Append(results, result)
    /\ order' = Append(order, i)
    /\ held' = [held EXCEPT ![i] = NoLocals]
    /\ LET len == Cardinality(Remaining(i))
           p == FillCount(len, next_domain, N, args.workers)
       IN
        /\ fut' = [j \in 1..N |->
                        IF j = i THEN "done"
                        ELSE IF next_domain < j /\ j <= next_domain + p THEN "created"
                        ELSE fut[j]]
        /\ next_domain' = next_domain + p
        /\ pc' = IF len + p = 0 THEN "collected" ELSE pc
    /\ UNCHANGED <<args, domains, requests, summary, file, gen_vars>>

\* check_domain has returned `result`: the counters, up to the first await
Handle(i, result) ==
    IF CountsAvailable(result) THEN
        \* available_domains.lock().await is ready at once, or suspends
        \/ Complete(i, result, available_count + 1, error_count)
        \/ /\ available_count' = available_count + 1
           /\ fut' = [fut EXCEPT ![i] = "locking"]
           /\ held' = [held EXCEPT ![i] = [response |-> None, result |-> Some(result)]]
           /\ UNCHANGED <<args, domains, pc, next_domain, requests, results, order,
                          error_count, available_domains, progress, summary, file,
                          gen_vars>>
    ELSE IF CountsError(result) THEN
        Complete(i, result, available_count, error_count + 1)
    ELSE
        Complete(i, result, available_count, error_count)

\* send().await resolves
SendResolves(i, send) ==
    /\ pc = "scanning"
    /\ fut[i] = "sent"
    /\ wire' = [wire EXCEPT ![i].send = Some(send)]
    /\ IF AwaitsBody(send)
       THEN /\ fut' = [fut EXCEPT ![i] = "body"]
            /\ held' = [held EXCEPT ![i] = [response |-> Some(send), result |-> None]]
            /\ UNCHANGED <<args, domains, pc, next_domain, requests, results, order,
                           available_count, error_count, available_domains, progress,
                           summary, file, gen_vars>>
       ELSE Handle(i, check_domain(domains[i], args.suffix, send, NoBody))

\* response.json().await resolves
BodyResolves(i, body) ==
    /\ pc = "scanning"
    /\ fut[i] = "body"
    /\ wire' = [wire EXCEPT ![i].body = Some(body)]
    /\ Handle(i, check_domain(domains[i], args.suffix, held[i].response[1], body))

LockAcquiredCountsAgain(i) ==
    /\ pc = "scanning"
    /\ fut[i] = "locking"
    /\ UNCHANGED wire
    /\ Complete(i, held[i].result[1], available_count + 1, error_count)
\* available_domains.lock().await resolves
LockAcquired(i) ==
    /\ pc = "scanning"
    /\ fut[i] = "locking"
    /\ UNCHANGED wire
    /\ Complete(i, held[i].result[1], available_count, error_count)

\* progress.finish_with_message(..)
Finish ==
    /\ pc = "collected"
    /\ progress' = [progress EXCEPT
                        !.msg = Some(IntToString(available_count) \o DISPONIVEIS
                                     \o COMMA_SPACE \o IntToString(error_count) \o ERROS),
                        !.finished = TRUE]
    /\ pc' = "finished"
    /\ UNCHANGED <<args, domains, next_domain, fut, held, requests, wire, results, order,
                   available_count, error_count, available_domains, summary, file,
                   gen_vars>>

\* let available: Vec<_> = results.iter().filter(|r| r.available).collect()
RECURSIVE AvailableOf(_)
AvailableOf(rs) ==
    IF rs = <<>> THEN <<>>
    ELSE (IF Head(rs).available THEN <<Head(rs)>> ELSE <<>>) \o AvailableOf(Tail(rs))

DomainsOf(rs) == [k \in 1..Len(rs) |-> rs[k].domain]

\* the RESUMO block
Summarise ==
    /\ pc = "finished"
    /\ summary' = Some([total |-> Len(results),
                        available |-> Len(AvailableOf(results)),
                        errors |-> error_count,
                        listed |-> DomainsOf(AvailableOf(results))])
    /\ pc' = "summarised"
    /\ UNCHANGED <<args, domains, next_domain, fut, held, requests, wire, results, order,
                   available_count, error_count, available_domains, progress, file,
                   gen_vars>>

\* whether main opens the output file
SavesWheneverOutput == args.output # None
Saves == args.output # None /\ AvailableOf(results) # <<>>

\* the file is written, or there is nothing to write: Ok(())
SaveFile ==
    /\ pc = "summarised"
    /\ file' = IF Saves THEN Some(DomainsOf(AvailableOf(results))) ELSE file
    /\ pc' = "done"
    /\ UNCHANGED <<args, domains, next_domain, fut, held, requests, wire, results, order,
                   available_count, error_count, available_domains, progress, summary,
                   gen_vars>>

\* File::create fails: main returns the error
SaveFails ==
    /\ pc = "summarised"
    /\ Saves
    /\ pc' = "failed"
    /\ UNCHANGED <<args, domains, next_domain, fut, held, requests, wire, results, order,
                   available_count, error_count, available_domains, progress, summary,
                   file, gen_vars>>

Next ==
    \/ StartScan
    \/ \E i \in 1..N : Issue(i)
    \/ \E i \in 1..N : \E send \in SendOutcomes : SendResolves(i, send)
    \/ \E i \in 1..N : \E body \in BodyOutcomes : BodyResolves(i, body)
    \/ \E i \in 1..N : LockAcquired(i)
    \/ Finish
    \/ Summarise
    \/ SaveFile
    \/ SaveFails

Spec == Init /\ [][Next]_vars


\* The executor keeps polling what is ready and every issued lookup returns
\* (a response, a failure or the client's timeout).
LiveSpec == Spec /\ WF_vars(Next)

\* ---------------------------------------------------------------- claims

Range(s) == {s[k] : k \in DOMAIN s}
BagOfSeq(s) == [x \in Range(s) |-> Cardinality({k \in DOMAIN s : s[k] = x})]
IsPrefix(p, s) == Len(p) <= Len(s) /\ SubSeq(s, 1, Len(p)) = p

\* collect() has returned
ScanFinished == pc \in {"collected", "finished", "summarised", "done", "failed"}

\* candidates whose lookup was issued or whose completion handler is running,
\* and whose result is not yet in `results`
Started == {j \in 1..N : fut[j] \in {"sent", "body", "locking"}}

\* the classes of a result
IsAvailable(r) == r.available
IsRateLimited(r) == ~r.available /\ r.error = Some(RATE_LIMITED)
IsProtocolError(r) == ~r.available /\ r.error # None /\ IsPrefix(PARSE_ERROR_, r.error[1])
IsTransportError(r) ==
    ~r.available /\ r.error # None /\ ~IsRateLimited(r) /\ ~IsProtocolError(r)
IsTaken(r) == ~r.available /\ r.error = None

\* C1: in every reachable state at most `workers` candidates are started and
\* not yet yielded to the result collection (and at most `workers` futures
\* are held by buffer_unordered at all).
C1_AtMostKInFlight ==
    /\ Cardinality(Started) <= args.workers
    /\ Cardinality(InProgress) <= args.workers

\* all the slots are taken, one of them by a running completion handler,
\* while a candidate still waits
C1_Witness ==
    /\ pc = "scanning"
    /\ N > args.workers
    /\ args.workers = 2
    /\ Cardinality(Started) = args.workers
    /\ \E j \in 1..N : fut[j] = "locking"
    /\ \E j \in 1..N : fut[j] = "queued"

\* C2: when the scan finishes, results has exactly N entries, one for every
\* occurrence of a candidate in the input (its domain is candidate ++ suffix),
\* and every candidate was looked up exactly once.
C2_ExactlyOneResultEach ==
    ScanFinished =>
        /\ Len(results) = N
        /\ Len(order) = N
        /\ Range(order) = 1..N
        /\ \A k \in 1..Len(results) : results[k].domain = domains[order[k]] \o args.suffix
        /\ \A i \in 1..N : requests[i] = 1

\* three candidates finished out of input order, with a success and a failure
C2_Witness ==
    /\ pc = "collected"
    /\ N = 3
    /\ order = <<2, 3, 1>>
    /\ \E k \in 1..Len(results) : IsAvailable(results[k])
    /\ \E k \in 1..Len(results) : IsTransportError(results[k])
    /\ \E k \in 1..Len(results) : IsRateLimited(results[k])

\* C3: every scan eventually has a result for every candidate, whatever
\* lookups fail or time out.
C3_ScanTerminates ==
    <>(pc = "collected" /\ Len(results) = N /\ \A i \in 1..N : fut[i] = "done")

\* with one worker, the first candidate timed out, the second was rate
\* limited and the third was still looked up
C3_Witness ==
    /\ pc = "collected"
    /\ args.workers = 1
    /\ N = 3
    /\ results[1].error = Some(TIMED_OUT)
    /\ IsRateLimited(results[2])
    /\ IsAvailable(results[3])

\* C4: after the scan, available_count is the number of available results,
\* available_domains has that length and holds the domain of every available
\* result once per result, and the summary prints the same count.
C4_AggregateMatchesResults ==
    ScanFinished =>
        /\ available_count = Cardinality({k \in 1..Len(results) : results[k].available})
        /\ Len(available_domains) = available_count
        /\ BagOfSeq(available_domains) =
              BagOfSeq(DomainsOf(SelectSeq(results, LAMBDA r : r.available)))
        /\ summary # None => summary[1].available = available_count

\* the summary was printed for a scan in which both occurrences of one
\* candidate were available, one of them recorded after a suspended lock
C4_Witness ==
    /\ summary # None
    /\ N = 3
    /\ available_count = 2
    /\ available_domains = <<domains[3] \o args.suffix, domains[1] \o args.suffix>>
    /\ error_count = 1


Last(s) == s[Len(s)]

\* d is the decimal numeral of n
IsDigit(c) == c \in Range(DIGITS)
DigitValue(c) == CHOOSE v \in 0..9 : DIGITS[v + 1] = c
RECURSIVE DecimalValue(_)
DecimalValue(d) ==
    IF d = <<>> THEN 0
    ELSE DecimalValue(SubSeq(d, 1, Len(d) - 1)) * 10 + DigitValue(d[Len(d)])
IsNatDecimal(d, n) ==
    /\ d # <<>>
    /\ \A k \in 1..Len(d) : IsDigit(d[k])
    /\ Len(d) > 1 => d[1] # "0"
    /\ DecimalValue(d) = n
IsDecimal(d, n) ==
    IF n < 0 THEN Len(d) >= 2 /\ d[1] = "-" /\ IsNatDecimal(Tail(d), 0 - n)
    ELSE IsNatDecimal(d, n)

\* the step in which candidate i's result is yielded to `results`
Yielded(i) == fut[i] # "done" /\ fut'[i] = "done"

C6_RecordEffects ==
    [][\A i \in 1..N :
          /\ (fut[i] \in {"sent", "body"} /\ fut'[i] = "done") =>
                LET r == Last(results') IN
                /\ (IsTransportError(r) \/ IsProtocolError(r)) =>
                      /\ error_count' = error_count + 1
                      /\ available_count' = available_count
                      /\ available_domains' = available_domains
                /\ IsTaken(r) =>
                      /\ error_count' = error_count
                      /\ available_count' = available_count
                      /\ available_domains' = available_domains
                /\ IsAvailable(r) =>
                      /\ error_count' = error_count
                      /\ available_count' = available_count + 1
                      /\ available_domains' = Append(available_domains, r.domain)
          /\ (fut[i] \in {"sent", "body"} /\ fut'[i] = "locking") =>
                /\ IsAvailable(held'[i].result[1])
                /\ error_count' = error_count
                /\ available_count' = available_count + 1
                /\ available_domains' = available_domains
          /\ (fut[i] = "locking" /\ fut'[i] = "done") =>
                /\ Last(results') = held[i].result[1]
                /\ error_count' = error_count
                /\ available_count' = available_count
                /\ available_domains' = Append(available_domains, Last(results').domain)]_vars

\* an error and a Taken result were recorded, and the handler of an
\* available one has added to the counter and waits for the lock
C6_Witness ==
    /\ pc = "scanning"
    /\ N = 3
    /\ Len(results) = 2
    /\ IsTransportError(results[1])
    /\ IsTaken(results[2])
    /\ fut[3] = "locking"
    /\ error_count = 1
    /\ available_count = 1
    /\ available_domains = <<>>

\* the text of e before its first 'T' (all of e when it has none)
DatePortion(e) ==
    CHOOSE d \in {SubSeq(e, 1, m) : m \in 0..Len(e)} :
        /\ "T" \notin Range(d)
        /\ Len(d) = Len(e) \/ e[Len(d) + 1] = "T"

\* C7: the result of a parsed 2xx response is decided by the body's status
\* (and expires-at for status 2): 0 is Available and nothing else is; 2 is
\* Taken with the date portion of expires-at and none of its time portion,
\* or the plain registered detail; 3 and 4 are Taken with their details; any
\* other n is Taken with "status n"; none carries an error.
C7_StatusMapping ==
    \A k \in 1..Len(results) :
        LET r == results[k]
            w == wire[order[k]]
        IN  (w.body # None /\ w.body[1].kind = "ok") =>
                LET a == w.body[1] IN
                /\ r.error = None
                /\ r.status # None
                /\ r.available <=> a.status = 0
                /\ a.status # 0 => IsTaken(r)
                /\ (a.status = 2 /\ a.expires_at = None) => r.status[1] = REGISTRADO
                /\ (a.status = 2 /\ a.expires_at # None) =>
                      /\ r.status[1] = REGISTRADO \o EXPIRA_OPEN
                                        \o DatePortion(a.expires_at[1]) \o EXPIRA_CLOSE
                      /\ "T" \notin Range(r.status[1])
                /\ a.status = 3 => r.status[1] = EM_PROCESSO
                /\ a.status = 4 => r.status[1] = INDISPONIVEL
                /\ a.status \notin {0, 2, 3, 4} =>
                      /\ IsPrefix(STATUS_, r.status[1])
                      /\ IsDecimal(SubSeq(r.status[1], Len(STATUS_) + 1, Len(r.status[1])),
                                   a.status)

\* status 2 with expires-at "2030-01-01T00:00:00" was reported with the date
C7_Witness ==
    /\ Len(results) = 1
    /\ wire[1].body = Some(BodyOk(2, Some(EXPIRES_1)))
    /\ results[1].status =
          Some(<<"r", "e", "g", "i", "s", "t", "r", "a", "d", "o", " ", "(", "e", "x",
                 "p", "i", "r", "a", ":", " ", "2", "0", "3", "0", "-", "0", "1", "-",
                 "0", "1", ")">>)
    /\ ~results[1].available

\* the digits an error message carries after "HTTP "
RECURSIVE LeadingDigits(_)
LeadingDigits(s) ==
    IF s = <<>> \/ ~IsDigit(Head(s)) THEN <<>>
    ELSE <<Head(s)>> \o LeadingDigits(Tail(s))

AlphabetSize == IF g_args.numbers_only THEN 10 ELSE IF g_args.letters_only THEN 26 ELSE 36
Alphabet ==
    IF g_args.numbers_only THEN Range(DIGITS)
    ELSE IF g_args.letters_only THEN Range(LETTERS)
    ELSE Range(LETTERS) \cup Range(DIGITS)

\* C9: for length >= 1, generate_combinations returns alphabet_size^length
\* strings, all distinct, each of the requested length over the mode's
\* alphabet, and every such string is among them, the all-first-symbol and
\* the all-last-symbol strings included.
C9_AllStringsOnce ==
    (g_pc = "returned" /\ g_args.length >= 1) =>
        /\ Len(combinations) = Pow(AlphabetSize, g_args.length)
        /\ Cardinality(Range(combinations)) = Len(combinations)
        /\ \A k \in 1..Len(combinations) :
              /\ Len(combinations[k]) = g_args.length
              /\ Range(combinations[k]) \subseteq Alphabet
        /\ \A w \in [1..g_args.length -> Alphabet] : w \in Range(combinations)
        /\ [p \in 1..g_args.length |-> IF g_args.numbers_only THEN "0" ELSE "a"]
              \in Range(combinations)
        /\ [p \in 1..g_args.length |-> IF g_args.letters_only /\ ~g_args.numbers_only
                                       THEN "z" ELSE "9"]
              \in Range(combinations)

\* the 1296 alphanumeric strings of length 2 were returned
C9_Witness ==
    /\ g_pc = "returned"
    /\ g_args = [length |-> 2, letters_only |-> FALSE, numbers_only |-> FALSE]
    /\ Len(combinations) = 1296
    /\ {<<"a", "a">>, <<"0", "0">>, <<"a", "1">>, <<"z", "9">>, <<"9", "9">>}
          \subseteq Range(combinations)

\* the place of a symbol in the alphabet's own order
SymbolIndex(c) == CHOOSE v \in 1..Len(GenChars) : GenChars[v] = c

\* u comes before v, symbol by symbol
LexLess(u, v) ==
    \E p \in 1..Len(u) :
        /\ \A q \in 1..(p - 1) : u[q] = v[q]
        /\ SymbolIndex(u[p]) < SymbolIndex(v[p])

\* C10: the i-th output (from 0) is i written in base alphabet_size with
\* `length` digits, most significant first, so the output is fixed by the
\* arguments and ascends in the alphabet's symbol order.
C10_PositionalEncoding ==
    /\ Len(combinations) = g_i
    /\ g_pc = "returned" =>
          /\ \A k \in 1..Len(combinations) :
                /\ Len(combinations[k]) = g_args.length
                /\ \A p \in 1..g_args.length :
                      SymbolIndex(combinations[k][p]) - 1 =
                          ((k - 1) \div Pow(AlphabetSize, g_args.length - p)) % AlphabetSize
          /\ \A k \in 1..(Len(combinations) - 1) :
                LexLess(combinations[k], combinations[k + 1])

\* the 1000 digit strings of length 3 were returned, "123" as output 123
C10_Witness ==
    /\ g_pc = "returned"
    /\ g_args.length = 3
    /\ g_args.numbers_only
    /\ Len(combinations) = 1000
    /\ combinations[124] = <<"1", "2", "3">>
    /\ combinations[1000] = <<"9", "9", "9">>

\* the shared state: the aggregator's counters and list, and the progress bar
Shared == <<available_count, error_count, available_domains, progress>>

\* the step runs candidate i's completion handler (all of it, or one half)
HandlerStep(i) == fut'[i] # fut[i] /\ fut'[i] \in {"locking", "done"}

\* C11: every candidate's check issues exactly one GET, whatever it is
\* answered (a failed, timed-out or rate-limited lookup is not re-issued),
\* and during the scan the shared counters, list and progress change only in
\* steps that run a completion handler, never in a step of the checker alone.
C11_OneRequestNoSharedState ==
    /\ [](\A i \in 1..N :
             /\ requests[i] <= 1
             /\ requests[i] = 1 <=> fut[i] \in {"sent", "body", "locking", "done"})
    /\ [][\A i \in 1..N :
             /\ requests'[i] # requests[i] => (fut[i] = "created" /\ fut'[i] = "sent")
             /\ (fut'[i] # fut[i] /\ fut'[i] \in {"sent", "body"}) =>
                    (Shared' = Shared /\ results' = results)
             /\ (pc = "scanning" /\ Shared' # Shared) => \E j \in 1..N : HandlerStep(j)]_vars

\* three lookups failed, timed out or were rate limited, each sent once
C11_Witness ==
    /\ pc = "collected"
    /\ N = 3
    /\ wire[1].send = Some(SendErr(TIMED_OUT))
    /\ wire[2].send = Some(SendHttp(TOO_MANY_REQUESTS))
    /\ wire[3].send = Some(SendErr(TIMED_OUT))
    /\ \A i \in 1..N : requests[i] = 1
    /\ error_count = 3

\* C12: a completed check emits at most one notification line, and emits one
\* exactly when its result is available or verbose is on; with verbose off a
\* taken, rate-limited or failed result emits none, and no other step of the
\* scan emits a notification line.
C12_NotificationLines ==
    [][/\ \A i \in 1..N : Yielded(i) =>
              LET r == Last(results') IN
                  IF r.available \/ args.verbose THEN
                      /\ Len(progress'.lines) = Len(progress.lines) + 1
                      /\ IsPrefix(progress.lines, progress'.lines)
                      /\ Last(progress'.lines).domain = r.domain
                      /\ (Last(progress'.lines).kind = "DISPONIVEL") <=> r.available
                  ELSE progress'.lines = progress.lines
       /\ (\A i \in 1..N : ~Yielded(i)) => progress'.lines = progress.lines]_vars

\* verbose off: an available, a taken and a failed result, one line in all
C12_Witness ==
    /\ pc = "collected"
    /\ ~args.verbose
    /\ N = 3
    /\ \E a, t, e \in 1..3 :
          /\ IsAvailable(results[a])
          /\ IsTaken(results[t])
          /\ results[e].error # None
          /\ progress.lines = <<Line("DISPONIVEL", results[a].domain, None)>>

Locking == {i \in 1..N : fut[i] = "locking"}

\* C14: in every state where no completion handler is part-way through its
\* update, available_count equals the number of available results applied
\* so far and the length of available_domains; a check still pending counts
\* in neither. (Part-way, the counter alone is ahead by one per handler
\* waiting for the lock.)
C14_AvailableCountInvariant ==
    LET applied == Len(SelectSeq(results, IsAvailable)) IN
        /\ Len(available_domains) = applied
        /\ available_count = applied + Cardinality(Locking)
        /\ Locking = {} => (available_count = applied /\ available_count = Len(available_domains))

\* one available result applied while another check is still in flight
C14_Witness ==
    /\ pc = "scanning"
    /\ N = 3
    /\ Locking = {}
    /\ available_count = 1
    /\ Len(results) = 2
    /\ \E k \in 1..2 : IsTaken(results[k])
    /\ \E j \in 1..N : fut[j] = "body"

\* the candidates handed to a slot so far
HandedOut == {j \in 1..N : fut[j] # "queued"}

\* C15: the scan is work-conserving and starts candidates in input order:
\* no state of the scan has a free slot while a candidate is still queued
\* (the slot a completed check frees is refilled in the same step), the
\* candidates handed out are always an initial part of the input, the oldest
\* created one can send its request whatever the other checks in flight are
\* doing, and requests are sent in input order although results arrive in
\* any order.
C15_WorkConserving ==
    /\ [](pc = "scanning" =>
             /\ Cardinality(InProgress) < args.workers => next_domain = N
             /\ HandedOut = 1..next_domain
             /\ \A i \in 1..N :
                   (fut[i] = "created" /\ \A j \in 1..(i - 1) : fut[j] # "created")
                       => ENABLED Issue(i))
    /\ [][\A i \in 1..N :
             /\ (fut[i] = "queued" /\ fut'[i] # "queued") =>
                    /\ fut'[i] = "created"
                    /\ \A j \in 1..(i - 1) : fut[j] # "queued" \/ fut'[j] = "created"
                    /\ pc = "start" \/ \E j \in 1..N : Yielded(j)
             /\ (fut[i] = "created" /\ fut'[i] # "created") =>
                    /\ fut'[i] = "sent"
                    /\ \A j \in 1..(i - 1) : fut[j] \notin {"queued", "created"}]_vars

\* two slots: candidate 2 has completed and candidate 3 was started in its
\* place while candidate 1 is still in flight
C15_Witness ==
    /\ pc = "scanning"
    /\ args.workers = 2
    /\ N = 3
    /\ fut[1] = "sent"
    /\ fut[2] = "done"
    /\ fut[3] = "sent"
    /\ order = <<2>>

\* the candidates whose handler has run progress.inc
Progressed == {i \in 1..N : fut[i] = "done"}

\* C16: the progress bar's position advances by exactly one in each step that
\* completes a check, whatever the result's kind, and in no other step; it
\* always equals the number of checks whose handler has reached
\* progress.inc, never exceeds its length N, and is N once the scan is over.
C16_ProgressCountsCompletions ==
    /\ [](pc # "idle" =>
             /\ progress.len = N
             /\ progress.pos = Cardinality(Progressed)
             /\ progress.pos = Len(results)
             /\ progress.pos <= N
             /\ ScanFinished => progress.pos = N)
    /\ [][IF \E i \in 1..N : Yielded(i)
          THEN progress'.pos = progress.pos + 1
          ELSE progress'.pos = progress.pos]_vars

\* three checks of three kinds completed: the bar stands at 3 of 3
C16_Witness ==
    /\ pc = "collected"
    /\ N = 3
    /\ progress.pos = 3
    /\ progress.len = 3
    /\ \E a, t, l \in 1..3 :
          IsAvailable(results[a]) /\ IsTaken(results[t]) /\ IsRateLimited(results[l])

\* the result carries an error message
HasError(r) == r.error # None

\* C17: a result reaches the collected sequence, and its slot is freed, only
\* with its aggregator and progress updates applied: in every state each
\* collected result is already counted, listed and progressed; the step that
\* collects candidate i's result is the one that frees i's slot and it
\* leaves the counters, the list and the progress position covering that
\* result; a handler waiting for the lock has counted but still holds its
\* slot and has no collected result.
C17_AppliedBeforeCollected ==
    /\ [](/\ Len(results) <= progress.pos
          /\ Len(SelectSeq(results, IsAvailable)) <= available_count
          /\ DomainsOf(SelectSeq(results, IsAvailable)) = available_domains
          /\ Len(SelectSeq(results, HasError)) <= error_count
          /\ \A i \in 1..N : i \in Range(order) <=> fut[i] = "done"
          /\ Range(order) \cap InProgress = {}
          /\ Locking \subseteq InProgress)
    /\ [][\A i \in 1..N :
             /\ Yielded(i) <=> (i \in InProgress /\ i \notin InProgress')
             /\ Yielded(i) <=> (Len(results') = Len(results) + 1 /\ Last(order') = i)
             /\ Yielded(i) =>
                    LET r == Last(results') IN
                        /\ progress'.pos = Len(results')
                        /\ r.available =>
                              /\ available_domains' # <<>>
                              /\ Last(available_domains') = r.domain
                              /\ available_count' > Len(SelectSeq(results, IsAvailable))
                        /\ HasError(r) =>
                              error_count' > Len(SelectSeq(results, HasError))]_vars

\* candidate 2's available result is collected, counted and listed while
\* candidate 1's handler has counted and waits for the lock, slot still held
C17_Witness ==
    /\ pc = "scanning"
    /\ N = 3
    /\ fut[1] = "locking"
    /\ order = <<2>>
    /\ IsAvailable(results[1])
    /\ available_domains = <<results[1].domain>>
    /\ available_count = 2
    /\ progress.pos = 1

\* C18: the aggregate is mutated by increment and append only: in every step
\* available_count and error_count do not decrease (and grow by at most
\* one), available_domains stays as it is or gains elements at its end, so
\* that each earlier list is a prefix of each later one; once the fan-out
\* has finished, the counters and the list never change again.
C18_AppendIncrementOnly ==
    [][/\ available_count' \in {available_count, available_count + 1}
       /\ error_count' \in {error_count, error_count + 1}
       /\ IsPrefix(available_domains, available_domains')
       /\ Len(available_domains') <= Len(available_domains) + 1
       /\ ScanFinished =>
              UNCHANGED <<available_count, error_count, available_domains>>]_vars

\* a finished run that appended twice and counted one error
C18_Witness ==
    /\ pc = "done"
    /\ N = 3
    /\ Len(available_domains) = 2
    /\ available_domains[1] # available_domains[2]
    /\ available_count = 2
    /\ error_count = 1

\* C19: when the scan has finished, the available results in collected
\* order, projected to their domains, are exactly available_domains, element
\* by element; hence the summary's list and the saved file, both derived
\* from the results, are in the order the aggregator recorded.
C19_ListAndResultsAgreeOnOrder ==
    ScanFinished =>
        /\ Len(results) = N
        /\ available_domains = [k \in 1..Len(AvailableOf(results)) |->
                                    AvailableOf(results)[k].domain]
        /\ summary # None => summary[1].listed = available_domains
        /\ file # None => file[1] = available_domains

\* candidate 2 was recorded before candidate 1, and the file has that order
C19_Witness ==
    /\ pc = "done"
    /\ N = 3
    /\ order[1] = 2
    /\ available_domains = <<FullDomain(domains[2], args.suffix),
                             FullDomain(domains[1], args.suffix)>>
    /\ file = Some(available_domains)
    /\ summary[1].listed = available_domains

\* the candidates whose check_domain has returned its result
Checked == {i \in 1..N : fut[i] \in {"locking", "done"}}

\* C20: the two counters count disjoint sets of results: no result is both
\* available and carries an error; a step increments at most one of the
\* counters, by one, and only as a check returns its result; a resuming
\* handler counts nothing more; in every state available_count +
\* error_count is at most the number of checks that have returned so far,
\* hence at most N.
C20_CountersPartition ==
    /\ [](/\ \A k \in 1..Len(results) : ~(results[k].available /\ HasError(results[k]))
          /\ \A i \in Locking :
                held[i].result[1].available /\ ~HasError(held[i].result[1])
          /\ available_count + error_count <= Cardinality(Checked)
          /\ Cardinality(Checked) <= N)
    /\ [][/\ (available_count' + error_count') - (available_count + error_count) \in {0, 1}
          /\ ~(available_count' # available_count /\ error_count' # error_count)
          /\ (available_count' + error_count') # (available_count + error_count) =>
                 \E i \in 1..N : i \notin Checked /\ i \in Checked']_vars

\* both counters have counted, one handler is still waiting for the lock:
\* the sum equals the checks returned, one ahead of the results collected
C20_Witness ==
    /\ pc = "scanning"
    /\ N = 3
    /\ Cardinality(Locking) = 1
    /\ available_count = 1
    /\ error_count = 1
    /\ Cardinality(Checked) = 2
    /\ Len(results) = 1
    /\ \E j \in 1..N : fut[j] \in {"sent", "body"}

=============================================================================
